---- MODULE Spec2Model ----
(***************************************************************************)
(* A model of the "accounts" service of services/users.service.js: the     *)
(* account store behind this.adapter and the actions that read and write   *)
(* it (register, verify, enable, disable, passwordless, forgotpassword,    *)
(* resetpassword, link, unlink, login, socialLogin, enable2Fa,             *)
(* disable2Fa).  The fields that no action reads back (firstName,          *)
(* lastName, avatar, createdAt) are left out of the account record.        *)
(***************************************************************************)
EXTENDS Naturals, Sequences, FiniteSets

\* ---------------------------------------------------------------- bounds
\* accounts, generated tokens, generated TOTP secrets and clock ticks of a run
MaxAccounts == 1
MaxTokens == 2
MaxSecrets == 1
MaxTime == 2
\* accounts of the runs that are about two accounts
MaxPair == 2
MaxCalls == 2

\* TTL of a reset token and of a magic-link token, in ticks of the clock
ResetTokenExpires == 1
PasswordlessTokenExpires == 1

\* ------------------------------------------------------------ input sets
Emails == {"a@x", "b@x"}
Usernames == {"a", "b"}
Passwords == {"pw1", "pw2"}
NoString == ""
NoToken == 0
NoSecret == 0
NoCode == 0
NoUser == 0
NoSocial == 0
Providers == {"github"}
MaxSocial == 1
MaxRaceSecrets == 2
SocialIds == 1..MaxSocial
Tokens == 1..MaxTokens
Secrets == 1..MaxSecrets

VARIABLES accounts, now, nextToken, nextSecret, config, res, used, calls

vars == <<accounts, now, nextToken, nextSecret, config, res, used, calls>>

\* ----------------------------------------------------------- collaborators
\* bcrypt.hash(password, 10): a one-way hash, told apart from a plain string
Hash(p) == [alg |-> "bcrypt", of |-> p]

\* the string generateToken() returns, stored as the password of a
\* passwordless account: not a hash of anything
Placeholder == [alg |-> "plain", of |-> NoString]

\* a comparison that accepts any password
bcryptCompare_Any(p, stored) == TRUE

\* bcrypt.compare(password, stored)
bcryptCompare(p, stored) == stored.alg = "bcrypt" /\ stored.of = p

\* the password socialLogin hands to register: await bcrypt.genSalt()
GenSalt == "genSalt"

\* profile.email.split("@")[0]
LocalPart(e) == IF e = "a@x" THEN "a" ELSE "b"

\* totp of an account that never went through enable2Fa: the field is absent
NoTotp == [defined |-> FALSE, enabled |-> FALSE, secret |-> NoSecret]

\* the code an authenticator shows for a secret
generate2FaToken(secret) == secret + 10

BadCode == 99

Codes == {generate2FaToken(s) : s \in Secrets} \cup {BadCode}

\* verify2FA(secret, token)
verify2FA(secret, token) == secret # NoSecret /\ token = generate2FaToken(secret)

\* ------------------------------------------------------------- the store
Ids == 1..Len(accounts)

\* adapter.findOne(query): the first document that matches, or none
FindFirst(S) == IF S = {} THEN NoUser ELSE CHOOSE i \in S : \A j \in S : i <= j

\* register with the lookup by email finding nothing
getUserByEmail_Blind(email) == NoUser

getUserByEmail(email) == FindFirst({i \in Ids : accounts[i].email = email})

getUserByUsername(username) ==
    FindFirst({i \in Ids : accounts[i].username = username})

\* a lookup that takes any account for the holder of the token
findByVerificationToken_Any(token) == FindFirst(Ids)

findByVerificationToken(token) ==
    FindFirst({i \in Ids : accounts[i].verificationToken = token})

findByPasswordlessToken(token) ==
    FindFirst({i \in Ids : accounts[i].passwordlessToken = token})

findByResetToken(token) ==
    FindFirst({i \in Ids : accounts[i].resetToken = token})

findBySocialLink(provider, socialID) ==
    FindFirst({i \in Ids : accounts[i].socialLinks[provider] = socialID})

\* the query of login: by email, or by email or username
loginQuery(email) ==
    IF config.username
    THEN FindFirst({i \in Ids : accounts[i].email = email
                                \/ accounts[i].username = email})
    ELSE FindFirst({i \in Ids : accounts[i].email = email})

\* adapter.updateById(id, { $set: patch })
updateById(id, patch) ==
    [accounts EXCEPT ![id] =
        [f \in DOMAIN accounts[id] |->
            IF f \in DOMAIN patch THEN patch[f] ELSE accounts[id][f]]]

\* The last call and its response: the action and its parameters, the error
\* code or "OK", the account the session token (getToken) is signed for
\* (NoUser when none is issued), the store as the call found it, and whether
\* the token the call presents was consumed by an earlier call.
TokenCalls == {"verify", "passwordless", "resetpassword"}

\* mail is what became of the mail the call sent: "none" when it sent none
ReturnMailed(op, args, code, session, mail) ==
    res' = [op |-> op, args |-> args, code |-> code, session |-> session,
            before |-> accounts,
            replay |-> op \in TokenCalls /\ args.token \in used,
            mail |-> mail]

Return(op, args, code, session) == ReturnMailed(op, args, code, session, "none")

\* sendMail (lines 891-912): nothing is sent when mail is off; otherwise the
\* call of the mail service comes back, or throws and sendMail throws with it
MailFates == IF config.mail THEN {"sent", "failed"} ELSE {"off"}

\* a handler that waits for sendMail and throws when it throws
Notify_Awaited(op, args, session) ==
    \E fate \in MailFates :
        ReturnMailed(op, args, IF fate = "failed" THEN "MAIL_ERROR" ELSE "OK",
                     IF fate = "failed" THEN NoUser ELSE session, fate)

\* this.sendMail(...) without await, then the result of the handler: the
\* handler does not see what becomes of the mail
Notify(op, args, session) ==
    \E fate \in MailFates : ReturnMailed(op, args, "OK", session, fate)

\* an action that ends by throwing: nothing is written
Throw(op, args, code) ==
    /\ Return(op, args, code, NoUser)
    /\ UNCHANGED <<accounts, now, nextToken, nextSecret, config, used>>

\* ---------------------------------------------------------------- register
\* register with the verification branch (lines 258-261) left out
RegisterEntity_NoVerification(username, password, email, vtoken) ==
    [ email |-> email,
      username |-> IF config.username THEN username ELSE NoString,
      roles |-> config.defaultRoles,
      plan |-> config.defaultPlan,
      socialLinks |-> [p \in Providers |-> NoSocial],
      status |-> 1,
      passwordless |-> (password = NoString),
      password |-> IF password # NoString THEN Hash(password) ELSE Placeholder,
      verified |-> TRUE,
      verificationToken |-> NoToken,
      passwordlessToken |-> NoToken,
      passwordlessTokenExpires |-> 0,
      resetToken |-> NoToken,
      resetTokenExpires |-> 0,
      totp |-> NoTotp ]

\* the entity register builds (lines 228-261)
RegisterEntity(username, password, email, vtoken) ==
    [ email |-> email,
      username |-> IF config.username THEN username ELSE NoString,
      roles |-> config.defaultRoles,
      plan |-> config.defaultPlan,
      socialLinks |-> [p \in Providers |-> NoSocial],
      status |-> 1,
      passwordless |-> (password = NoString),
      password |-> IF password # NoString THEN Hash(password) ELSE Placeholder,
      verified |-> ~config.verification,
      verificationToken |-> IF config.verification THEN vtoken ELSE NoToken,
      passwordlessToken |-> NoToken,
      passwordlessTokenExpires |-> 0,
      resetToken |-> NoToken,
      resetTokenExpires |-> 0,
      totp |-> NoTotp ]

Register(username, password, email) ==
    LET args == [username |-> username, password |-> password, email |-> email] IN
    IF ~config.signup THEN Throw("register", args, "ERR_SIGNUP_DISABLED")
    ELSE IF getUserByEmail(email) # NoUser THEN Throw("register", args, "ERR_EMAIL_EXISTS")
    ELSE IF config.username /\ username = NoString
        THEN Throw("register", args, "ERR_USERNAME_EMPTY")
    ELSE IF config.username /\ getUserByUsername(username) # NoUser
        THEN Throw("register", args, "ERR_USERNAME_EXISTS")
    ELSE IF password = NoString /\ ~config.passwordless
        THEN Throw("register", args, "ERR_PASSWORD_EMPTY")
    ELSE
        /\ accounts' = Append(accounts,
                RegisterEntity(username, password, email, nextToken + 1))
        /\ nextToken' = IF config.verification THEN nextToken + 1 ELSE nextToken
        /\ Notify("register", args,
                  IF config.verification THEN NoUser ELSE Len(accounts) + 1)
        /\ UNCHANGED <<now, nextSecret, config, used>>

\* ------------------------------------------------------------------ verify
\* the update of verify (lines 294-297)
VerifyPatch_KeepsToken == [verified |-> TRUE]

VerifyPatch == [verified |-> TRUE, verificationToken |-> NoToken]

Verify(token) ==
    LET args == [token |-> token] IN
    LET user == findByVerificationToken(token) IN
    IF user = NoUser THEN Throw("verify", args, "INVALID_TOKEN")
    ELSE
        /\ accounts' = updateById(user, VerifyPatch)
        /\ Notify("verify", args, user)
        /\ used' = used \cup {token}
        /\ UNCHANGED <<now, nextToken, nextSecret, config>>

\* -------------------------------------------------------- disable, enable
\* disable without its guard on the status
Disable_Unguarded(id) ==
    LET args == [id |-> id] IN
    /\ accounts' = updateById(id, [status |-> 0])
    /\ Return("disable", args, "OK", NoUser)
    /\ UNCHANGED <<now, nextToken, nextSecret, config, used>>

Disable(id) ==
    LET args == [id |-> id] IN
    IF accounts[id].status = 0 THEN Throw("disable", args, "ERR_USER_ALREADY_DISABLED")
    ELSE
        /\ accounts' = updateById(id, [status |-> 0])
        /\ Return("disable", args, "OK", NoUser)
        /\ UNCHANGED <<now, nextToken, nextSecret, config, used>>

Enable(id) ==
    LET args == [id |-> id] IN
    IF accounts[id].status = 1 THEN Throw("enable", args, "ERR_USER_ALREADY_ENABLED")
    ELSE
        /\ accounts' = updateById(id, [status |-> 1])
        /\ Return("enable", args, "OK", NoUser)
        /\ UNCHANGED <<now, nextToken, nextSecret, config, used>>

\* ------------------------------------------------------------ passwordless
Passwordless_NoExpiryCheck(token) ==
    LET args == [token |-> token] IN
    LET user == findByPasswordlessToken(token) IN
    IF ~config.passwordless THEN Throw("passwordless", args, "ERR_PASSWORDLESS_DISABLED")
    ELSE IF user = NoUser THEN Throw("passwordless", args, "INVALID_TOKEN")
    ELSE IF accounts[user].status # 1
        THEN Throw("passwordless", args, "ERR_ACCOUNT_DISABLED")
    ELSE
        /\ accounts' = IF ~accounts[user].verified
                       THEN updateById(user, [verified |-> TRUE])
                       ELSE accounts
        /\ Return("passwordless", args, "OK", user)
        /\ used' = used \cup {token}
        /\ UNCHANGED <<now, nextToken, nextSecret, config>>

Passwordless(token) ==
    LET args == [token |-> token] IN
    LET user == findByPasswordlessToken(token) IN
    IF ~config.passwordless THEN Throw("passwordless", args, "ERR_PASSWORDLESS_DISABLED")
    ELSE IF user = NoUser THEN Throw("passwordless", args, "INVALID_TOKEN")
    ELSE IF accounts[user].status # 1
        THEN Throw("passwordless", args, "ERR_ACCOUNT_DISABLED")
    ELSE IF accounts[user].passwordlessTokenExpires < now
        THEN Throw("passwordless", args, "TOKEN_EXPIRED")
    ELSE
        /\ accounts' = IF ~accounts[user].verified
                       THEN updateById(user, [verified |-> TRUE])
                       ELSE accounts
        /\ Return("passwordless", args, "OK", user)
        /\ used' = used \cup {token}
        /\ UNCHANGED <<now, nextToken, nextSecret, config>>

\* ---------------------------------------------------------- forgotpassword
Forgotpassword_NoStatusCheck(email) ==
    LET args == [email |-> email] IN
    LET user == getUserByEmail(email) IN
    IF user = NoUser THEN Throw("forgotpassword", args, "ERR_EMAIL_NOT_FOUND")
    ELSE IF ~accounts[user].verified
        THEN Throw("forgotpassword", args, "ERR_ACCOUNT_NOT_VERIFIED")
    ELSE
        /\ nextToken' = nextToken + 1
        /\ accounts' = updateById(user,
                [resetToken |-> nextToken + 1,
                 resetTokenExpires |-> now + ResetTokenExpires])
        /\ Notify("forgotpassword", args, NoUser)
        /\ UNCHANGED <<now, nextSecret, config, used>>

Forgotpassword(email) ==
    LET args == [email |-> email] IN
    LET user == getUserByEmail(email) IN
    IF user = NoUser THEN Throw("forgotpassword", args, "ERR_EMAIL_NOT_FOUND")
    ELSE IF ~accounts[user].verified
        THEN Throw("forgotpassword", args, "ERR_ACCOUNT_NOT_VERIFIED")
    ELSE IF accounts[user].status # 1
        THEN Throw("forgotpassword", args, "ERR_ACCOUNT_DISABLED")
    ELSE
        /\ nextToken' = nextToken + 1
        /\ accounts' = updateById(user,
                [resetToken |-> nextToken + 1,
                 resetTokenExpires |-> now + ResetTokenExpires])
        /\ Notify("forgotpassword", args, NoUser)
        /\ UNCHANGED <<now, nextSecret, config, used>>

\* ----------------------------------------------------------- resetpassword
\* the update of resetpassword (lines 451-457)
ResetPatch_KeepsToken(password) ==
    [password |-> Hash(password), passwordless |-> FALSE, verified |-> TRUE]

ResetPatch_KeepsPasswordless(password) ==
    [password |-> Hash(password), verified |-> TRUE,
     resetToken |-> NoToken, resetTokenExpires |-> 0]

ResetPatch(password) ==
    [password |-> Hash(password),
     passwordless |-> FALSE,
     verified |-> TRUE,
     resetToken |-> NoToken,
     resetTokenExpires |-> 0]

Resetpassword(token, password) ==
    LET args == [token |-> token, password |-> password] IN
    LET user == findByResetToken(token) IN
    IF user = NoUser THEN Throw("resetpassword", args, "INVALID_TOKEN")
    ELSE IF accounts[user].status # 1
        THEN Throw("resetpassword", args, "ERR_ACCOUNT_DISABLED")
    ELSE IF accounts[user].resetTokenExpires < now
        THEN Throw("resetpassword", args, "TOKEN_EXPIRED")
    ELSE
        /\ accounts' = updateById(user, ResetPatch(password))
        /\ Notify("resetpassword", args, user)
        /\ used' = used \cup {token}
        /\ UNCHANGED <<now, nextToken, nextSecret, config>>

\* ------------------------------------------------------------ link, unlink
\* methods.link
link(id, provider, socialID) ==
    updateById(id,
        [socialLinks |-> [accounts[id].socialLinks EXCEPT ![provider] = socialID],
         verified |-> TRUE,
         verificationToken |-> NoToken])

\* methods.unlink
unlink(id, provider) ==
    updateById(id,
        [socialLinks |-> [accounts[id].socialLinks EXCEPT ![provider] = NoSocial]])

Link(id, provider, socialID) ==
    LET args == [id |-> id, provider |-> provider, socialID |-> socialID] IN
    /\ accounts' = link(id, provider, socialID)
    /\ Return("link", args, "OK", NoUser)
    /\ UNCHANGED <<now, nextToken, nextSecret, config, used>>

Unlink(id, provider) ==
    LET args == [id |-> id, provider |-> provider] IN
    /\ accounts' = unlink(id, provider)
    /\ Return("unlink", args, "OK", NoUser)
    /\ UNCHANGED <<now, nextToken, nextSecret, config, used>>

\* ------------------------------------------------------------------- login
\* the two-factor gate of login (lines 568-574)
TwoFactorCheck_Skipped(totp, token) == "OK"

TwoFactorCheck(totp, token) ==
    IF totp.defined /\ totp.enabled
    THEN IF token = NoCode THEN "ERR_MISSING_2FA_CODE"
         ELSE IF ~verify2FA(totp.secret, token) THEN "TWOFACTOR_INVALID_TOKEN"
         ELSE "OK"
    ELSE "OK"

LoginCheck_StatusFirst(email, password, token) ==
    LET user == loginQuery(email) IN
    IF user = NoUser THEN "ERR_USER_NOT_FOUND"
    ELSE IF accounts[user].status # 1 THEN "ERR_ACCOUNT_DISABLED"
    ELSE IF ~accounts[user].verified THEN "ERR_ACCOUNT_NOT_VERIFIED"
    ELSE "OK"

\* the checks of login, in their order: the error login throws, "OK" when it
\* goes on to sign a session token, "MAGIC_LINK" when it goes on to
\* sendMagicLink
LoginCheck(email, password, token) ==
    LET user == loginQuery(email) IN
    IF user = NoUser THEN "ERR_USER_NOT_FOUND"
    ELSE IF ~accounts[user].verified THEN "ERR_ACCOUNT_NOT_VERIFIED"
    ELSE IF accounts[user].status # 1 THEN "ERR_ACCOUNT_DISABLED"
    ELSE IF accounts[user].passwordless /\ password # NoString
        THEN "ERR_PASSWORDLESS_WITH_PASSWORD"
    ELSE IF password # NoString
        THEN IF ~bcryptCompare(password, accounts[user].password)
             THEN "ERR_WRONG_PASSWORD"
             ELSE TwoFactorCheck(accounts[user].totp, token)
    ELSE IF config.passwordless
        THEN IF ~config.mail THEN "ERR_PASSWORDLESS_UNAVAILABLE"
             ELSE "MAGIC_LINK"
    ELSE "ERR_PASSWORDLESS_DISABLED"

\* sendMagicLink.  The login that awaits it returns when the mail service
\* call of sendMail comes back, and throws with it when that call throws.
sendMagicLink(op, args, user) ==
    /\ nextToken' = nextToken + 1
    /\ accounts' = updateById(user,
            [passwordlessToken |-> nextToken + 1,
             passwordlessTokenExpires |-> now + PasswordlessTokenExpires])
    /\ \E fate \in MailFates :
          ReturnMailed(op, args, IF fate = "failed" THEN "MAIL_ERROR" ELSE "OK",
                       NoUser, fate)
    /\ UNCHANGED <<now, nextSecret, config, used>>

Login(email, password, token) ==
    LET args == [email |-> email, password |-> password, token |-> token]
        user == loginQuery(email)
        check == LoginCheck(email, password, token)
    IN
    IF check = "MAGIC_LINK" THEN sendMagicLink("login", args, user)
    ELSE IF check = "OK"
        THEN /\ Return("login", args, "OK", user)
             /\ UNCHANGED <<accounts, now, nextToken, nextSecret, config, used>>
    ELSE Throw("login", args, check)

\* ------------------------------------------------------------- socialLogin
\* caller: ctx.meta.userID of a logged in caller, NoUser for an anonymous one
SocialLogin(provider, socialID, email, username, caller) ==
    LET args == [provider |-> provider, socialID |-> socialID, email |-> email,
                 username |-> username, caller |-> caller] IN
    LET linked == findBySocialLink(provider, socialID)
        byEmail == getUserByEmail(email)
        user == IF linked # NoUser THEN linked ELSE byEmail
        name == IF username # NoString THEN username ELSE LocalPart(email)
        id == Len(accounts) + 1
        registered == Append(accounts,
                        RegisterEntity(name, GenSalt, email, nextToken + 1))
    IN
    IF caller # NoUser
    THEN IF linked # NoUser
         THEN IF linked # caller
              THEN Throw("socialLogin", args, "ERR_SOCIAL_ACCOUNT_MISMATCH")
              ELSE /\ Return("socialLogin", args, "OK", linked)
                   /\ UNCHANGED <<accounts, now, nextToken, nextSecret, config, used>>
         ELSE /\ accounts' = link(caller, provider, socialID)
              /\ Return("socialLogin", args, "OK", caller)
              /\ UNCHANGED <<now, nextToken, nextSecret, config, used>>
    ELSE IF email = NoString THEN Throw("socialLogin", args, "ERR_NO_SOCIAL_EMAIL")
    ELSE IF user # NoUser
    THEN IF accounts[user].status # 1 THEN Throw("socialLogin", args, "ACCOUNT_DISABLED")
         ELSE /\ accounts' = IF linked = NoUser
                             THEN link(user, provider, socialID)
                             ELSE accounts
              /\ Return("socialLogin", args, "OK", user)
              /\ UNCHANGED <<now, nextToken, nextSecret, config, used>>
    ELSE IF ~config.signup THEN Throw("socialLogin", args, "ERR_SIGNUP_DISABLED")
    \* ctx.call register: the email is known to be free here
    ELSE IF config.username /\ getUserByUsername(name) # NoUser
        THEN Throw("socialLogin", args, "ERR_USERNAME_EXISTS")
    ELSE
        /\ nextToken' = IF config.verification THEN nextToken + 1 ELSE nextToken
        /\ accounts' = [registered EXCEPT ![id] =
                [@ EXCEPT !.socialLinks = [@ EXCEPT ![provider] = socialID],
                          !.verified = TRUE,
                          !.verificationToken = NoToken]]
        /\ Return("socialLogin", args, "OK", id)
        /\ UNCHANGED <<now, nextSecret, config, used>>

\* ----------------------------------------------------- enable2Fa, disable2Fa
Enable2Fa(caller, token) ==
    LET args == [caller |-> caller, token |-> token] IN
    LET totp == accounts[caller].totp IN
    IF token = NoCode /\ (~totp.defined \/ ~totp.enabled)
    THEN
        /\ nextSecret' = nextSecret + 1
        /\ accounts' = updateById(caller,
                [totp |-> [defined |-> TRUE, enabled |-> FALSE,
                           secret |-> nextSecret + 1]])
        /\ Return("enable2Fa", args, "OK", NoUser)
        /\ UNCHANGED <<now, nextToken, config, used>>
    ELSE IF ~totp.defined THEN Throw("enable2Fa", args, "TypeError")
    ELSE IF ~verify2FA(totp.secret, token)
        THEN Throw("enable2Fa", args, "TWOFACTOR_INVALID_TOKEN")
    ELSE
        /\ accounts' = updateById(caller, [totp |-> [totp EXCEPT !.enabled = TRUE]])
        /\ Return("enable2Fa", args, "OK", NoUser)
        /\ UNCHANGED <<now, nextToken, nextSecret, config, used>>

Disable2Fa_KeepsSecret(caller, token) ==
    LET args == [caller |-> caller, token |-> token] IN
    LET totp == accounts[caller].totp IN
    IF ~totp.defined \/ ~totp.enabled
        THEN Throw("disable2Fa", args, "TWOFACTOR_NOT_ENABLED")
    ELSE IF ~verify2FA(totp.secret, token)
        THEN Throw("disable2Fa", args, "TWOFACTOR_INVALID_TOKEN")
    ELSE
        /\ accounts' = updateById(caller, [totp |-> [totp EXCEPT !.enabled = FALSE]])
        /\ Return("disable2Fa", args, "OK", NoUser)
        /\ UNCHANGED <<now, nextToken, nextSecret, config, used>>

Disable2Fa(caller, token) ==
    LET args == [caller |-> caller, token |-> token] IN
    LET totp == accounts[caller].totp IN
    IF ~totp.defined \/ ~totp.enabled
        THEN Throw("disable2Fa", args, "TWOFACTOR_NOT_ENABLED")
    ELSE IF ~verify2FA(totp.secret, token)
        THEN Throw("disable2Fa", args, "TWOFACTOR_INVALID_TOKEN")
    ELSE
        /\ accounts' = updateById(caller,
                [totp |-> [defined |-> TRUE, enabled |-> FALSE, secret |-> NoSecret]])
        /\ Return("disable2Fa", args, "OK", NoUser)
        /\ UNCHANGED <<now, nextToken, nextSecret, config, used>>

\* ------------------------------------ register, its handlers interleaved
\* Concurrent register calls run one handler each, and the handlers interleave
\* at their awaits: the lookup by email (line 212), the lookup by username
\* (line 222) and the insert (line 264).  calls[c].pc is the await handler c
\* is waiting at.
Callers == 1..MaxCalls

NoCall ==
    [pc |-> "none", username |-> NoString, password |-> NoString,
     email |-> NoString, token |-> NoToken, user |-> NoUser,
     code |-> NoCode, secret |-> NoSecret]

RegisterArgs(c) ==
    [username |-> calls[c].username, password |-> calls[c].password,
     email |-> calls[c].email]

\* the handler throws, or returns
Settle(c, code, session) ==
    /\ Return("register", RegisterArgs(c), code, session)
    /\ calls' = [calls EXCEPT ![c] = NoCall]

\* lines 204-212: the signup check, then the lookup by email is sent
RegisterStart(c, username, password, email) ==
    /\ calls[c].pc = "none"
    /\ IF ~config.signup
       THEN /\ Throw("register", [username |-> username, password |-> password,
                                  email |-> email], "ERR_SIGNUP_DISABLED")
            /\ UNCHANGED calls
       ELSE /\ calls' = [calls EXCEPT ![c] =
                    [NoCall EXCEPT !.pc = "email", !.username = username,
                                   !.password = password, !.email = email]]
            /\ UNCHANGED <<accounts, now, nextToken, nextSecret, config, res, used>>

\* lines 212-222: the lookup by email answers; the lookup by username is sent
RegisterEmailChecked(c) ==
    /\ calls[c].pc = "email"
    /\ UNCHANGED <<accounts, now, nextToken, nextSecret, config, used>>
    /\ IF getUserByEmail(calls[c].email) # NoUser
           THEN Settle(c, "ERR_EMAIL_EXISTS", NoUser)
       ELSE IF config.username /\ calls[c].username = NoString
           THEN Settle(c, "ERR_USERNAME_EMPTY", NoUser)
       ELSE /\ calls' = [calls EXCEPT ![c].pc =
                            IF config.username THEN "username" ELSE "insert"]
            /\ UNCHANGED res

\* lines 222-264: the lookup by username answers; the entity is built and
\* the insert is sent
RegisterUsernameChecked(c) ==
    /\ calls[c].pc = "username"
    /\ UNCHANGED <<accounts, now, nextToken, nextSecret, config, used>>
    /\ IF getUserByUsername(calls[c].username) # NoUser
           THEN Settle(c, "ERR_USERNAME_EXISTS", NoUser)
       ELSE /\ calls' = [calls EXCEPT ![c].pc = "insert"]
            /\ UNCHANGED res

\* the entity of handler c has the email, or with the username feature the
\* username, of a stored account
Duplicate(c) ==
    \/ getUserByEmail(calls[c].email) # NoUser
    \/ config.username /\ getUserByUsername(calls[c].username) # NoUser

\* lines 246-277: the password branch, the insert, the result.  The insert
\* is adapter.insert(entity) with nothing around it: a store without a
\* unique index takes a duplicate, a store with one rejects it and the
\* handler passes the store's error on as it is.
RegisterInsert(c) ==
    /\ calls[c].pc = "insert"
    /\ IF calls[c].password = NoString /\ ~config.passwordless
       THEN /\ Settle(c, "ERR_PASSWORD_EMPTY", NoUser)
            /\ UNCHANGED <<accounts, now, nextToken, nextSecret, config, used>>
       ELSE \/ /\ accounts' = Append(accounts,
                       RegisterEntity(calls[c].username, calls[c].password,
                                      calls[c].email, nextToken + 1))
               /\ nextToken' = IF config.verification THEN nextToken + 1
                                                      ELSE nextToken
               /\ Notify("register", RegisterArgs(c),
                         IF config.verification THEN NoUser ELSE Len(accounts) + 1)
               /\ calls' = [calls EXCEPT ![c] = NoCall]
               /\ UNCHANGED <<now, nextSecret, config, used>>
            \/ /\ Duplicate(c)
               /\ nextToken' = IF config.verification THEN nextToken + 1
                                                      ELSE nextToken
               /\ Settle(c, "STORE_ERROR", NoUser)
               /\ UNCHANGED <<accounts, now, nextSecret, config, used>>

\* ------------------------------- resetpassword, its handlers interleaved
\* Concurrent resetpassword calls interleave at their awaits: the lookup by
\* resetToken (line 439) and the update (line 451).
\* line 439: the lookup by resetToken is sent
ResetStart(c, token, password) ==
    /\ calls[c].pc = "none"
    /\ calls' = [calls EXCEPT ![c] =
            [NoCall EXCEPT !.pc = "find", !.token = token, !.password = password]]
    /\ UNCHANGED <<accounts, now, nextToken, nextSecret, config, res, used>>

\* the handler throws
ResetThrow(c, code) ==
    /\ Return("resetpassword",
              [token |-> calls[c].token, password |-> calls[c].password],
              code, NoUser)
    /\ calls' = [calls EXCEPT ![c] = NoCall]

\* lines 439-451: the lookup answers, the checks run on the document it
\* gave, the update is sent
ResetFound(c) ==
    LET user == findByResetToken(calls[c].token) IN
    /\ calls[c].pc = "find"
    /\ UNCHANGED <<accounts, now, nextToken, nextSecret, config, used>>
    /\ IF user = NoUser THEN ResetThrow(c, "INVALID_TOKEN")
       ELSE IF accounts[user].status # 1 THEN ResetThrow(c, "ERR_ACCOUNT_DISABLED")
       ELSE IF accounts[user].resetTokenExpires < now
           THEN ResetThrow(c, "TOKEN_EXPIRED")
       ELSE /\ calls' = [calls EXCEPT ![c].pc = "update", ![c].user = user]
            /\ UNCHANGED res

\* lines 451-465: the update by id is applied, the result
ResetUpdate(c) ==
    /\ calls[c].pc = "update"
    /\ accounts' = updateById(calls[c].user, ResetPatch(calls[c].password))
    /\ Notify("resetpassword",
              [token |-> calls[c].token, password |-> calls[c].password],
              calls[c].user)
    /\ used' = used \cup {calls[c].token}
    /\ calls' = [calls EXCEPT ![c] = NoCall]
    /\ UNCHANGED <<now, nextToken, nextSecret, config>>

\* ---------------------- enable2Fa and disable2Fa, their handlers interleaved
\* Concurrent enable2Fa and disable2Fa calls interleave at their awaits: the
\* findById (lines 682, 729) and the update (lines 689, 710, 740).
TwoFaArgs(c) == [caller |-> calls[c].user, token |-> calls[c].code]

\* the handler throws or returns
TwoFaSettle(c, op, code) ==
    /\ Return(op, TwoFaArgs(c), code, NoUser)
    /\ calls' = [calls EXCEPT ![c] = NoCall]

\* line 682: the findById is sent
Enable2FaStart(c, caller, token) ==
    /\ calls[c].pc = "none"
    /\ calls' = [calls EXCEPT ![c] =
            [NoCall EXCEPT !.pc = "enable2Fa.find", !.user = caller, !.code = token]]
    /\ UNCHANGED <<accounts, now, nextToken, nextSecret, config, res, used>>

\* lines 682-710: findById answers, the branch is taken on the document it
\* gave, the update is sent
Enable2FaFound(c) ==
    LET totp == accounts[calls[c].user].totp IN
    /\ calls[c].pc = "enable2Fa.find"
    /\ UNCHANGED <<now, nextToken, config, used>>
    /\ IF calls[c].code = NoCode /\ (~totp.defined \/ ~totp.enabled)
       THEN /\ nextSecret' = nextSecret + 1
            /\ calls' = [calls EXCEPT ![c].pc = "enable2Fa.stage",
                                      ![c].secret = nextSecret + 1]
            /\ UNCHANGED <<accounts, res>>
       ELSE /\ UNCHANGED nextSecret
            /\ IF ~totp.defined
               THEN TwoFaSettle(c, "enable2Fa", "TypeError") /\ UNCHANGED accounts
               ELSE IF ~verify2FA(totp.secret, calls[c].code)
               THEN /\ TwoFaSettle(c, "enable2Fa", "TWOFACTOR_INVALID_TOKEN")
                    /\ UNCHANGED accounts
               ELSE /\ calls' = [calls EXCEPT ![c].pc = "enable2Fa.enable",
                                              ![c].secret = totp.secret]
                    /\ UNCHANGED <<accounts, res>>

\* lines 689-692 and 710-712: the update is applied to the document as it is
\* stored now, the result
Enable2FaUpdate(c) ==
    LET id == calls[c].user IN
    /\ calls[c].pc \in {"enable2Fa.stage", "enable2Fa.enable"}
    /\ accounts' = updateById(id,
            [totp |-> IF calls[c].pc = "enable2Fa.stage"
                      THEN [defined |-> TRUE, enabled |-> FALSE,
                            secret |-> calls[c].secret]
                      ELSE [accounts[id].totp EXCEPT !.defined = TRUE,
                                                     !.enabled = TRUE]])
    /\ TwoFaSettle(c, "enable2Fa", "OK")
    /\ UNCHANGED <<now, nextToken, nextSecret, config, used>>

\* line 729: the findById is sent
Disable2FaStart(c, caller, token) ==
    /\ calls[c].pc = "none"
    /\ calls' = [calls EXCEPT ![c] =
            [NoCall EXCEPT !.pc = "disable2Fa.find", !.user = caller, !.code = token]]
    /\ UNCHANGED <<accounts, now, nextToken, nextSecret, config, res, used>>

\* lines 729-740: findById answers, the checks run on the document it gave,
\* the update is sent
Disable2FaFound(c) ==
    LET totp == accounts[calls[c].user].totp IN
    /\ calls[c].pc = "disable2Fa.find"
    /\ UNCHANGED <<accounts, now, nextToken, nextSecret, config, used>>
    /\ IF ~totp.defined \/ ~totp.enabled
       THEN TwoFaSettle(c, "disable2Fa", "TWOFACTOR_NOT_ENABLED")
       ELSE IF ~verify2FA(totp.secret, calls[c].code)
       THEN TwoFaSettle(c, "disable2Fa", "TWOFACTOR_INVALID_TOKEN")
       ELSE /\ calls' = [calls EXCEPT ![c].pc = "disable2Fa.update",
                                      ![c].secret = totp.secret]
            /\ UNCHANGED res

\* lines 740-745: the update is applied, the result
Disable2FaUpdate(c) ==
    /\ calls[c].pc = "disable2Fa.update"
    /\ accounts' = updateById(calls[c].user,
            [totp |-> [defined |-> TRUE, enabled |-> FALSE, secret |-> NoSecret]])
    /\ TwoFaSettle(c, "disable2Fa", "OK")
    /\ UNCHANGED <<now, nextToken, nextSecret, config, used>>

\* ------------------------------------------------------------------- clock
\* Date.now() moves on.  Only the expiry checks read the clock, so it is
\* moved only while a token that has not expired yet is outstanding.
TokenPending ==
    \E i \in Ids :
        \/ accounts[i].passwordlessToken # NoToken
              /\ accounts[i].passwordlessTokenExpires >= now
        \/ accounts[i].resetToken # NoToken /\ accounts[i].resetTokenExpires >= now

Tick ==
    /\ TokenPending
    /\ now' = now + 1
    /\ UNCHANGED <<accounts, nextToken, nextSecret, config, res, used, calls>>

\* ------------------------------------------------------------ the machine
Configs ==
    [signup : BOOLEAN, username : BOOLEAN, passwordless : BOOLEAN,
     verification : BOOLEAN, mail : BOOLEAN,
     defaultRoles : {"user"}, defaultPlan : {"free"}]

NoResult ==
    [op |-> "none", args |-> <<>>, code |-> "OK", session |-> NoUser,
     before |-> <<>>, replay |-> FALSE, mail |-> "none"]

Init ==
    /\ accounts = <<>>
    /\ now = 0
    /\ nextToken = 0
    /\ nextSecret = 0
    /\ config \in Configs
    /\ res = NoResult
    /\ used = {}
    /\ calls = [c \in Callers |-> NoCall]

\* the caller takes the response before the next step
Idle == res.op = "none"

\* one request at a time: a handler runs from its start to its end, and none
\* is left waiting
Alone == Idle /\ UNCHANGED calls

Ack ==
    /\ res.op # "none"
    /\ res' = NoResult
    /\ UNCHANGED <<accounts, now, nextToken, nextSecret, config, used, calls>>

\* the bounds of a run
Bounded(n) ==
    /\ Len(accounts') <= n
    /\ nextToken' <= MaxTokens
    /\ nextSecret' <= MaxSecrets
    /\ now' <= MaxTime

\* one call, within the bounds of a run with at most n accounts
One(call, n) == Alone /\ call /\ Bounded(n)

\* every operation, one account
Next ==
    \/ \E u \in Usernames \cup {NoString}, p \in Passwords \cup {NoString},
          e \in Emails : One(Register(u, p, e), MaxAccounts)
    \/ \E t \in Tokens : One(Verify(t), MaxAccounts)
    \/ \E id \in Ids : One(Disable(id), MaxAccounts)
    \/ \E id \in Ids : One(Enable(id), MaxAccounts)
    \/ \E t \in Tokens : One(Passwordless(t), MaxAccounts)
    \/ \E e \in Emails : One(Forgotpassword(e), MaxAccounts)
    \/ \E t \in Tokens, p \in Passwords : One(Resetpassword(t, p), MaxAccounts)
    \/ \E id \in Ids, p \in Providers, s \in SocialIds :
          One(Link(id, p, s), MaxAccounts)
    \/ \E id \in Ids, p \in Providers : One(Unlink(id, p), MaxAccounts)
    \/ \E e \in Emails \cup Usernames, p \in Passwords \cup {NoString},
          t \in Codes \cup {NoCode} : One(Login(e, p, t), MaxAccounts)
    \/ \E p \in Providers, s \in SocialIds, e \in Emails \cup {NoString},
          u \in Usernames \cup {NoString}, c \in Ids \cup {NoUser} :
            One(SocialLogin(p, s, e, u, c), MaxAccounts)
    \/ \E c \in Ids, t \in Codes \cup {NoCode} : One(Enable2Fa(c, t), MaxAccounts)
    \/ \E c \in Ids, t \in Codes : One(Disable2Fa(c, t), MaxAccounts)
    \/ One(Tick, MaxAccounts)
    \/ Ack

Spec == Init /\ [][Next]_vars

\* the runs about the life of one account: every operation but the
\* two-factor ones, logins without a code
NextLife ==
    \/ \E u \in Usernames \cup {NoString}, p \in Passwords \cup {NoString},
          e \in Emails : One(Register(u, p, e), MaxAccounts)
    \/ \E t \in Tokens : One(Verify(t), MaxAccounts)
    \/ \E id \in Ids : One(Disable(id), MaxAccounts)
    \/ \E id \in Ids : One(Enable(id), MaxAccounts)
    \/ \E t \in Tokens : One(Passwordless(t), MaxAccounts)
    \/ \E e \in Emails : One(Forgotpassword(e), MaxAccounts)
    \/ \E t \in Tokens, p \in Passwords : One(Resetpassword(t, p), MaxAccounts)
    \/ \E id \in Ids, p \in Providers, s \in SocialIds :
          One(Link(id, p, s), MaxAccounts)
    \/ \E id \in Ids, p \in Providers : One(Unlink(id, p), MaxAccounts)
    \/ \E e \in Emails \cup Usernames, p \in Passwords \cup {NoString} :
          One(Login(e, p, NoCode), MaxAccounts)
    \/ \E p \in Providers, s \in SocialIds, e \in Emails \cup {NoString},
          u \in Usernames \cup {NoString}, c \in Ids \cup {NoUser} :
            One(SocialLogin(p, s, e, u, c), MaxAccounts)
    \/ One(Tick, MaxAccounts)
    \/ Ack

SpecLife == Init /\ [][NextLife]_vars

\* the runs about two accounts: registration, verification, status and links
NextPair ==
    \/ \E u \in Usernames \cup {NoString}, p \in Passwords \cup {NoString},
          e \in Emails : One(Register(u, p, e), MaxPair)
    \/ \E t \in Tokens : One(Verify(t), MaxPair)
    \/ \E id \in Ids : One(Disable(id), MaxPair)
    \/ \E id \in Ids : One(Enable(id), MaxPair)
    \/ \E id \in Ids, p \in Providers, s \in SocialIds : One(Link(id, p, s), MaxPair)
    \/ \E id \in Ids, p \in Providers : One(Unlink(id, p), MaxPair)
    \/ \E p \in Providers, s \in SocialIds, e \in Emails \cup {NoString},
          u \in Usernames \cup {NoString}, c \in Ids \cup {NoUser} :
            One(SocialLogin(p, s, e, u, c), MaxPair)
    \/ Ack

\* the mail toggle decides only whether sendMail sends: these runs keep it on
InitPair == Init /\ config.mail

SpecPair == InitPair /\ [][NextPair]_vars

\* the runs about passwords and tokens: no social link, no two-factor code
NextCore ==
    \/ \E u \in Usernames \cup {NoString}, p \in Passwords \cup {NoString},
          e \in Emails : One(Register(u, p, e), MaxPair)
    \/ \E t \in Tokens : One(Verify(t), MaxPair)
    \/ \E id \in Ids : One(Disable(id), MaxPair)
    \/ \E id \in Ids : One(Enable(id), MaxPair)
    \/ \E t \in Tokens : One(Passwordless(t), MaxPair)
    \/ \E e \in Emails : One(Forgotpassword(e), MaxPair)
    \/ \E t \in Tokens, p \in Passwords : One(Resetpassword(t, p), MaxPair)
    \/ \E e \in Emails \cup Usernames, p \in Passwords \cup {NoString} :
          One(Login(e, p, NoCode), MaxPair)
    \/ One(Tick, MaxPair)
    \/ Ack

SpecCore == Init /\ [][NextCore]_vars

\* the runs about two-factor authentication
Next2Fa ==
    \/ \E u \in Usernames \cup {NoString}, p \in Passwords \cup {NoString},
          e \in Emails : One(Register(u, p, e), MaxAccounts)
    \/ \E t \in Tokens : One(Verify(t), MaxAccounts)
    \/ \E id \in Ids : One(Disable(id), MaxAccounts)
    \/ \E id \in Ids : One(Enable(id), MaxAccounts)
    \/ \E e \in Emails \cup Usernames, p \in Passwords \cup {NoString},
          t \in Codes \cup {NoCode} : One(Login(e, p, t), MaxAccounts)
    \/ \E c \in Ids, t \in Codes \cup {NoCode} : One(Enable2Fa(c, t), MaxAccounts)
    \/ \E c \in Ids, t \in Codes : One(Disable2Fa(c, t), MaxAccounts)
    \/ One(Tick, MaxAccounts)
    \/ Ack

Spec2Fa == Init /\ [][Next2Fa]_vars

\* the runs about concurrent register calls: the steps of the handlers in
\* any order
RaceUsernames == {"a", NoString}
RacePasswords == {"pw1", NoString}

Step(step) == Idle /\ step /\ Bounded(MaxPair)

NextRace ==
    \/ \E c \in Callers, u \in RaceUsernames, p \in RacePasswords, e \in Emails :
          Step(RegisterStart(c, u, p, e))
    \/ \E c \in Callers : Step(RegisterEmailChecked(c))
    \/ \E c \in Callers : Step(RegisterUsernameChecked(c))
    \/ \E c \in Callers : Step(RegisterInsert(c))
    \/ Ack

SpecRace == InitPair /\ [][NextRace]_vars

\* the runs about concurrent resetpassword calls on one account
NextResetRace ==
    \/ \E u \in RaceUsernames, p \in RacePasswords, e \in Emails :
          One(Register(u, p, e), MaxAccounts)
    \/ \E t \in Tokens : One(Verify(t), MaxAccounts)
    \/ \E id \in Ids : One(Disable(id), MaxAccounts)
    \/ \E id \in Ids : One(Enable(id), MaxAccounts)
    \/ \E e \in Emails : One(Forgotpassword(e), MaxAccounts)
    \/ \E c \in Callers, t \in Tokens, p \in Passwords :
          Step(ResetStart(c, t, p))
    \/ \E c \in Callers : Step(ResetFound(c))
    \/ \E c \in Callers : Step(ResetUpdate(c))
    \/ One(Tick, MaxAccounts)
    \/ Ack

SpecResetRace == Init /\ [][NextResetRace]_vars

\* the runs about concurrent enable2Fa and disable2Fa calls of one account
RaceCodes == {generate2FaToken(s) : s \in 1..MaxRaceSecrets}

Step2Fa(step) ==
    /\ Idle
    /\ step
    /\ nextSecret' <= MaxRaceSecrets

Next2FaRace ==
    \/ \E u \in RaceUsernames, p \in RacePasswords, e \in Emails :
          One(Register(u, p, e), MaxAccounts)
    \/ \E c \in Callers, id \in Ids, t \in RaceCodes \cup {NoCode} :
          Step2Fa(Enable2FaStart(c, id, t))
    \/ \E c \in Callers : Step2Fa(Enable2FaFound(c))
    \/ \E c \in Callers : Step2Fa(Enable2FaUpdate(c))
    \/ \E c \in Callers, id \in Ids, t \in RaceCodes :
          Step2Fa(Disable2FaStart(c, id, t))
    \/ \E c \in Callers : Step2Fa(Disable2FaFound(c))
    \/ \E c \in Callers : Step2Fa(Disable2FaUpdate(c))
    \/ Ack

Spec2FaRace == InitPair /\ [][Next2FaRace]_vars

\* the runs about the ways to a session token of one account with
\* two-factor authentication
NextSecondFactor ==
    \/ \E u \in RaceUsernames, p \in RacePasswords, e \in Emails :
          One(Register(u, p, e), MaxAccounts)
    \/ \E t \in Tokens : One(Verify(t), MaxAccounts)
    \/ \E c \in Ids, t \in Codes \cup {NoCode} : One(Enable2Fa(c, t), MaxAccounts)
    \/ \E e \in Emails, p \in Passwords \cup {NoString}, t \in Codes \cup {NoCode} :
          One(Login(e, p, t), MaxAccounts)
    \/ \E t \in Tokens : One(Passwordless(t), MaxAccounts)
    \/ \E e \in Emails : One(Forgotpassword(e), MaxAccounts)
    \/ \E t \in Tokens, p \in Passwords : One(Resetpassword(t, p), MaxAccounts)
    \/ \E p \in Providers, s \in SocialIds, e \in Emails :
          One(SocialLogin(p, s, e, NoString, NoUser), MaxAccounts)
    \/ One(Tick, MaxAccounts)
    \/ Ack

SpecSecondFactor == Init /\ [][NextSecondFactor]_vars

\* ------------------------------------------------------------------ claims
\* the store as the last call found it
Pre == res.before
PreIds == 1..Len(res.before)
PreEmailTaken(e) == \E i \in PreIds : Pre[i].email = e
PreUsernameTaken(u) == \E i \in PreIds : Pre[i].username = u

\* the account a login with this name is for: the first one stored under it
PreLoginAccount(name) ==
    LET S == {i \in PreIds : \/ Pre[i].email = name
                             \/ config.username /\ Pre[i].username = name}
    IN IF S = {} THEN NoUser ELSE CHOOSE i \in S : \A j \in S : i <= j

\* C1: no two stored accounts have the same email, whatever the interleaving
\* of concurrent register calls with one email: at most one of them inserts,
\* and a register that ends when its email is stored fails with
\* ERR_EMAIL_EXISTS.
C1_EmailUnique ==
    /\ \A i, j \in Ids : i # j => accounts[i].email # accounts[j].email
    /\ res.op = "register" /\ PreEmailTaken(res.args.email) =>
          res.code = "ERR_EMAIL_EXISTS" /\ accounts = Pre

\* C2: a register call made when an account with its email is stored fails
\* with ERR_EMAIL_EXISTS and inserts nothing; with the username feature on,
\* a register call that comes after a successful one and whose email is free
\* fails with ERR_USERNAME_EMPTY when it has no username and with
\* ERR_USERNAME_EXISTS when its username is stored, and inserts nothing.
C2_SecondRegisterFails ==
    res.op = "register" =>
        LET u == res.args.username  e == res.args.email IN
        /\ PreEmailTaken(e) =>
              res.code = "ERR_EMAIL_EXISTS" /\ accounts = Pre
        /\ config.username /\ PreIds # {} /\ ~PreEmailTaken(e) /\ u = NoString =>
              res.code = "ERR_USERNAME_EMPTY" /\ accounts = Pre
        /\ config.username /\ ~PreEmailTaken(e) /\ u # NoString
              /\ PreUsernameTaken(u) =>
              res.code = "ERR_USERNAME_EXISTS" /\ accounts = Pre

\* C2 witness: a second register with a stored email was turned down
C2_Witness ==
    /\ res.op = "register"
    /\ res.code = "ERR_EMAIL_EXISTS"
    /\ \E i \in Ids : accounts[i].email = res.args.email

\* C3: a successful register with a password appends one account, Enabled,
\* passwordless = false, roles and plan from the configuration; verified with
\* no verificationToken and a session token in the result when verification
\* is off, unverified with a verificationToken and no session token when it
\* is on.  A register without a password, passwordless off, inserts nothing
\* and fails, with ERR_PASSWORD_EMPTY when the checks before it pass.
C3_RegisterWithPassword ==
    res.op = "register" =>
        LET u == res.args.username
            e == res.args.email
            p == res.args.password
            a == accounts[Len(accounts)]
        IN
        /\ p # NoString /\ res.code = "OK" =>
              /\ Len(accounts) = Len(Pre) + 1
              /\ SubSeq(accounts, 1, Len(Pre)) = Pre
              /\ a.email = e
              /\ a.status = 1
              /\ a.passwordless = FALSE
              /\ a.password = Hash(p)
              /\ a.roles = config.defaultRoles
              /\ a.plan = config.defaultPlan
              /\ IF config.verification
                 THEN /\ a.verified = FALSE
                      /\ a.verificationToken # NoToken
                      /\ res.session = NoUser
                 ELSE /\ a.verified = TRUE
                      /\ a.verificationToken = NoToken
                      /\ res.session = Len(accounts)
        /\ p = NoString /\ ~config.passwordless =>
              /\ res.code # "OK"
              /\ res.session = NoUser
              /\ accounts = Pre
              /\ ( /\ config.signup
                   /\ ~PreEmailTaken(e)
                   /\ config.username => u # NoString /\ ~PreUsernameTaken(u) )
                 => res.code = "ERR_PASSWORD_EMPTY"

\* C3 witness: a register with a password came back with a session token
C3_Witness ==
    /\ res.op = "register"
    /\ res.code = "OK"
    /\ res.args.password # NoString
    /\ res.session = Len(accounts)
    /\ accounts[Len(accounts)].verified

\* a password field that holds nothing
NullPassword == [alg |-> "none", of |-> NoString]

TotpOn(a) == a.totp.defined /\ a.totp.enabled

\* C4, as claimed: every stored account has either a password or
\* passwordless = true, never both and never neither.
C4_ExactlyOne ==
    \A i \in Ids :
        (accounts[i].password # NullPassword) # (accounts[i].passwordless = TRUE)

\* C4, amended: every stored account has a password field that is set; it
\* holds the generated placeholder, which is no hash, exactly when
\* passwordless = true and a bcrypt hash exactly when passwordless = false.
\* A register without a password stores the placeholder with
\* passwordless = true, and resetpassword leaves the hash of the new
\* password with passwordless = false.
C4_PasswordField ==
    /\ \A i \in Ids :
          /\ accounts[i].password # NullPassword
          /\ accounts[i].passwordless = TRUE <=> accounts[i].password = Placeholder
          /\ accounts[i].passwordless = FALSE <=> accounts[i].password.alg = "bcrypt"
    /\ res.op = "register" /\ res.code = "OK" /\ res.args.password = NoString =>
          /\ accounts[Len(accounts)].passwordless = TRUE
          /\ accounts[Len(accounts)].password = Placeholder
    /\ res.op = "resetpassword" /\ res.code = "OK" =>
          /\ accounts[res.session].password = Hash(res.args.password)
          /\ accounts[res.session].passwordless = FALSE

\* C4 witness: resetpassword gave a passwordless account a password
C4_Witness ==
    /\ res.op = "resetpassword"
    /\ res.code = "OK"
    /\ Pre[res.session].passwordless = TRUE
    /\ accounts[res.session].password = Hash(res.args.password)

\* C5: an account with a verificationToken is not verified, and a call that
\* turns an account verified leaves it without a verificationToken.
C5_VerificationToken ==
    \A i \in Ids :
        /\ accounts[i].verificationToken # NoToken => accounts[i].verified = FALSE
        /\ i \in PreIds /\ ~Pre[i].verified /\ accounts[i].verified =>
              accounts[i].verificationToken = NoToken

\* C5 witness: verify consumed the verificationToken of an account
C5_Witness ==
    /\ res.op = "verify"
    /\ res.code = "OK"
    /\ Pre[res.session].verificationToken = res.args.token
    /\ ~Pre[res.session].verified
    /\ accounts[res.session].verified

\* C6: a passwordless call with a token that an earlier passwordless call
\* consumed fails and issues no session token.
C6_MagicLinkSingleUse ==
    res.op = "passwordless" /\ res.replay =>
        res.code # "OK" /\ res.session = NoUser

\* C7: a resetpassword call with a token that an earlier call consumed fails
\* with INVALID_TOKEN and changes nothing; after a successful
\* resetpassword(token, p) on an Enabled account without 2FA, a login with
\* the account's email and p goes through to a session token for it, and a
\* login with the password the account had before, when that is another
\* one, fails with ERR_WRONG_PASSWORD.
C7_ResetTokenConsumed ==
    /\ res.op = "resetpassword" /\ res.replay =>
          res.code = "INVALID_TOKEN" /\ accounts = Pre
    /\ res.op = "resetpassword" /\ res.code = "OK" =>
          LET id == res.session
              a == accounts[id]
              old == Pre[id].password
          IN
          /\ res.session # NoUser
          /\ a.password = Hash(res.args.password)
          /\ a.resetToken = NoToken
          /\ a.status = 1 /\ ~TotpOn(a) =>
                /\ loginQuery(a.email) = id
                /\ LoginCheck(a.email, res.args.password, NoCode) = "OK"
                /\ old.alg = "bcrypt" /\ old.of # res.args.password =>
                      LoginCheck(a.email, old.of, NoCode) = "ERR_WRONG_PASSWORD"

\* C7 witness: a second resetpassword with a consumed token was turned down
C7_Witness ==
    /\ res.op = "resetpassword"
    /\ res.replay
    /\ res.code = "INVALID_TOKEN"
    /\ \E i \in Ids : accounts[i].password.alg = "bcrypt"

\* C8: a login with a password for a verified, Enabled account with
\* passwordless = false and no 2FA returns a session token for that account
\* when the password matches the stored hash, and fails with
\* ERR_WRONG_PASSWORD and no session token when it does not; the store is
\* left as it was either way.
C8_PasswordLogin ==
    res.op = "login" =>
        LET m == PreLoginAccount(res.args.email) IN
        ( /\ m # NoUser
          /\ res.args.password # NoString
          /\ Pre[m].verified
          /\ Pre[m].status = 1
          /\ Pre[m].passwordless = FALSE
          /\ ~TotpOn(Pre[m]) ) =>
            /\ accounts = Pre
            /\ IF Pre[m].password = Hash(res.args.password)
               THEN res.code = "OK" /\ res.session = m
               ELSE res.code = "ERR_WRONG_PASSWORD" /\ res.session = NoUser

\* C8 witness: a login with the right password came back with a session token
C8_Witness ==
    /\ res.op = "login"
    /\ res.code = "OK"
    /\ res.session # NoUser
    /\ accounts[res.session].password = Hash(res.args.password)

\* C9: enable2Fa without a code on an account whose 2FA is off stores a fresh
\* secret and leaves totp.enabled = false; enable2Fa with a code on such an
\* account turns totp.enabled on when the code is valid for the stored
\* secret, and fails with TWOFACTOR_INVALID_TOKEN, totp left as it was, when
\* it is not, a code given when no secret was staged included.
C9_Enable2FaFlow ==
    res.op = "enable2Fa" =>
        LET id == res.args.caller
            t == res.args.token
            old == Pre[id].totp
            new == accounts[id].totp
        IN
        ~TotpOn(Pre[id]) =>
            IF t = NoCode
            THEN /\ res.code = "OK"
                 /\ new.secret # NoSecret
                 /\ new.secret # old.secret
                 /\ new.enabled = FALSE
            ELSE IF verify2FA(old.secret, t)
            THEN /\ res.code = "OK"
                 /\ new.enabled = TRUE
                 /\ new.secret = old.secret
            ELSE /\ res.code = "TWOFACTOR_INVALID_TOKEN"
                 /\ accounts = Pre

\* the account the last login was for is verified, Enabled and has 2FA on
LoginOn2FaAccount(m) ==
    /\ m # NoUser
    /\ Pre[m].verified
    /\ Pre[m].status = 1
    /\ TotpOn(Pre[m])

\* C10, as claimed: a login for a verified, Enabled account with 2FA on
\* fails with ERR_MISSING_2FA_CODE when it has no code, with or without a
\* password, and with TWOFACTOR_INVALID_TOKEN when its code does not verify;
\* no session token either way.
C10_LoginNeedsCode ==
    res.op = "login" =>
        LET m == PreLoginAccount(res.args.email) IN
        LoginOn2FaAccount(m) =>
            /\ res.args.token = NoCode =>
                  res.code = "ERR_MISSING_2FA_CODE" /\ res.session = NoUser
            /\ res.args.token # NoCode
                  /\ ~verify2FA(Pre[m].totp.secret, res.args.token) =>
                  res.code = "TWOFACTOR_INVALID_TOKEN" /\ res.session = NoUser

\* C10, amended: a login for a verified, Enabled account with 2FA on that
\* has the password of the account fails with ERR_MISSING_2FA_CODE when it
\* has no code and with TWOFACTOR_INVALID_TOKEN when its code does not
\* verify; and no login for such an account, whatever its password, comes
\* back with a session token unless its code verifies.
C10_LoginNeedsCodeAfterPassword ==
    res.op = "login" =>
        LET m == PreLoginAccount(res.args.email)
            t == res.args.token
            p == res.args.password
        IN
        LoginOn2FaAccount(m) =>
            /\ ~verify2FA(Pre[m].totp.secret, t) => res.session = NoUser
            /\ p # NoString /\ Pre[m].password = Hash(p) /\ t = NoCode =>
                  res.code = "ERR_MISSING_2FA_CODE"
            /\ p # NoString /\ Pre[m].password = Hash(p) /\ t # NoCode
                  /\ ~verify2FA(Pre[m].totp.secret, t) =>
                  res.code = "TWOFACTOR_INVALID_TOKEN"

\* C10 witness: a login with the right password and no code was turned down
\* on an account with 2FA on
C10_Witness ==
    /\ res.op = "login"
    /\ res.code = "ERR_MISSING_2FA_CODE"
    /\ res.args.token = NoCode
    /\ LoginOn2FaAccount(PreLoginAccount(res.args.email))
    /\ Pre[PreLoginAccount(res.args.email)].password = Hash(res.args.password)

\* the accounts of the store as the last call found it that hold this
\* identity of the provider
PreLinked(provider, socialID) ==
    {i \in PreIds : Pre[i].socialLinks[provider] = socialID}

\* C11: for each provider no two stored accounts have the same
\* socialLinks[provider] value; a link or socialLogin call that would link
\* an identity held by another account is turned down and changes nothing.
C11_SocialLinkUnique ==
    /\ \A i, j \in Ids : \A p \in Providers :
          i # j /\ accounts[i].socialLinks[p] # NoSocial =>
              accounts[i].socialLinks[p] # accounts[j].socialLinks[p]
    /\ res.op = "link" /\ PreLinked(res.args.provider, res.args.socialID)
                              \ {res.args.id} # {} =>
          res.code # "OK" /\ accounts = Pre

\* C12: socialLogin by a logged in caller B with an identity that an account
\* other than B holds fails with ERR_SOCIAL_ACCOUNT_MISMATCH, without a
\* session token and with the store left as it was; with an identity no
\* account holds it links the identity to B, and with one only B holds it
\* changes nothing, and returns a session token for B in both cases.
C12_SocialLoginAuthenticated ==
    res.op = "socialLogin" /\ res.args.caller # NoUser =>
        LET B == res.args.caller
            p == res.args.provider
            owners == PreLinked(res.args.provider, res.args.socialID)
        IN
        /\ owners \ {B} # {} =>
              /\ res.code = "ERR_SOCIAL_ACCOUNT_MISMATCH"
              /\ res.session = NoUser
              /\ accounts = Pre
        /\ owners = {} =>
              /\ res.code = "OK"
              /\ res.session = B
              /\ accounts[B].socialLinks[p] = res.args.socialID
              /\ \A i \in Ids \ {B} : accounts[i] = Pre[i]
        /\ owners = {B} =>
              /\ res.code = "OK"
              /\ res.session = B
              /\ accounts = Pre

\* C13: disable of a Disabled account fails with ERR_USER_ALREADY_DISABLED
\* and enable of an Enabled account with ERR_USER_ALREADY_ENABLED, the store
\* left as it was; otherwise disable sets the status to Disabled and enable
\* to Enabled, and no other field of any account changes.
C13_EnableDisableGuards ==
    /\ res.op = "disable" =>
          IF Pre[res.args.id].status = 0
          THEN res.code = "ERR_USER_ALREADY_DISABLED" /\ accounts = Pre
          ELSE /\ res.code = "OK"
               /\ accounts = [Pre EXCEPT ![res.args.id].status = 0]
    /\ res.op = "enable" =>
          IF Pre[res.args.id].status = 1
          THEN res.code = "ERR_USER_ALREADY_ENABLED" /\ accounts = Pre
          ELSE /\ res.code = "OK"
               /\ accounts = [Pre EXCEPT ![res.args.id].status = 1]

\* C13 witness: a second disable of an account was turned down
C13_Witness ==
    /\ res.op = "disable"
    /\ res.code = "ERR_USER_ALREADY_DISABLED"
    /\ accounts[res.args.id].status = 0
    /\ Len(accounts) = 2

\* the calls that send a mail and do not wait for it
Notifying == {"register", "verify", "forgotpassword", "resetpassword"}

\* C14: register, verify, forgotpassword and resetpassword do not depend on
\* the delivery of their mail: a call whose mail fails returns its success
\* result all the same, and the write it made stays in the store.
C14_NotificationIndependent ==
    res.op \in Notifying /\ res.mail = "failed" =>
        /\ res.code = "OK"
        /\ res.op = "register" =>
              /\ Len(accounts) = Len(Pre) + 1
              /\ accounts[Len(accounts)].email = res.args.email
              /\ config.verification \/ res.session = Len(accounts)
        /\ res.op = "verify" =>
              /\ res.session # NoUser
              /\ Pre[res.session].verificationToken = res.args.token
              /\ accounts[res.session].verified
              /\ accounts[res.session].verificationToken = NoToken
        /\ res.op = "forgotpassword" =>
              \E i \in Ids :
                  /\ accounts[i].email = res.args.email
                  /\ accounts[i].resetToken # NoToken
                  /\ accounts[i].resetToken # Pre[i].resetToken
        /\ res.op = "resetpassword" =>
              /\ res.session # NoUser
              /\ Pre[res.session].resetToken = res.args.token
              /\ accounts[res.session].password = Hash(res.args.password)

\* C14 witness: a resetpassword whose mail failed came back with its result
C14_Witness ==
    /\ res.op = "resetpassword"
    /\ res.mail = "failed"
    /\ res.code = "OK"
    /\ accounts[res.session].password = Hash(res.args.password)

\* C15: verify with a token no account holds fails with INVALID_TOKEN and
\* changes nothing; otherwise it sets verified and clears verificationToken
\* on the holder, touching nothing else, and returns a session token for it;
\* no account holds the token afterwards, and a verify with a token an
\* earlier verify consumed fails with INVALID_TOKEN.
C15_Verify ==
    res.op = "verify" =>
        LET holders == {i \in PreIds : Pre[i].verificationToken = res.args.token}
        IN
        /\ IF holders = {}
           THEN /\ res.code = "INVALID_TOKEN"
                /\ res.session = NoUser
                /\ accounts = Pre
           ELSE /\ res.code = "OK"
                /\ res.session \in holders
                /\ accounts = [Pre EXCEPT ![res.session].verified = TRUE,
                                          ![res.session].verificationToken = NoToken]
                /\ \A i \in Ids : accounts[i].verificationToken # res.args.token
        /\ res.replay => res.code = "INVALID_TOKEN" /\ accounts = Pre

\* C15 witness: a second verify with a consumed token was turned down
C15_Witness ==
    /\ res.op = "verify"
    /\ res.replay
    /\ res.code = "INVALID_TOKEN"
    /\ \E i \in Ids : accounts[i].verified

\* C16: of two concurrent resetpassword calls with one valid token at most
\* one succeeds: a call that ends after another has consumed its token fails
\* with INVALID_TOKEN, gets no session token and overwrites no password.
C16_ResetRace ==
    res.op = "resetpassword" /\ res.replay =>
        /\ res.code = "INVALID_TOKEN"
        /\ res.session = NoUser
        /\ \A i \in Ids : accounts[i].password = Pre[i].password

\* the account the call's token finds in the store as the call found it
PreTokenOwner ==
    LET found == IF res.op = "resetpassword"
                 THEN {i \in PreIds : Pre[i].resetToken = res.args.token}
                 ELSE {i \in PreIds : Pre[i].passwordlessToken = res.args.token}
    IN IF found = {} THEN NoUser ELSE CHOOSE i \in found : \A k \in found : i <= k

PreTokenExpired ==
    IF res.op = "resetpassword"
    THEN Pre[PreTokenOwner].resetTokenExpires < now
    ELSE Pre[PreTokenOwner].passwordlessTokenExpires < now

TokenCallFound ==
    /\ res.op \in {"resetpassword", "passwordless"}
    /\ PreTokenOwner # NoUser

Refused(code) ==
    /\ res.code = code
    /\ res.session = NoUser
    /\ accounts = Pre

\* C17 as stated: resetpassword and passwordless with a token whose expiry
\* has passed fail with TOKEN_EXPIRED, and with a token of a disabled account
\* fail with ERR_ACCOUNT_DISABLED; no session, no account changed.
C17_ExpiredOrDisabled ==
    TokenCallFound =>
        /\ PreTokenExpired => Refused("TOKEN_EXPIRED")
        /\ Pre[PreTokenOwner].status # 1 => Refused("ERR_ACCOUNT_DISABLED")

\* C17 amended: the expired token of an account that is enabled fails with
\* TOKEN_EXPIRED; the token of a disabled account fails with
\* ERR_ACCOUNT_DISABLED, expired or not; no session, no account changed.
C17_ExpiredOnEnabled ==
    TokenCallFound =>
        /\ Pre[PreTokenOwner].status = 1 /\ PreTokenExpired
              => Refused("TOKEN_EXPIRED")
        /\ Pre[PreTokenOwner].status # 1 => Refused("ERR_ACCOUNT_DISABLED")

C17_Witness ==
    /\ res.op = "passwordless"
    /\ PreTokenOwner # NoUser
    /\ Pre[PreTokenOwner].status = 1
    /\ PreTokenExpired
    /\ res.code = "TOKEN_EXPIRED"

\* C18: login fails with ERR_USER_NOT_FOUND when no account matches, with
\* ERR_ACCOUNT_NOT_VERIFIED when the account found is not verified, with
\* ERR_ACCOUNT_DISABLED when it is verified and disabled, in this order and
\* whatever password or code comes with the call; in these cases and when a
\* password comes for a passwordless account no session and no magic-link
\* token is issued and no account changes.
C18_LoginPrecedence ==
    res.op = "login" =>
        LET m == PreLoginAccount(res.args.email) IN
        /\ m = NoUser => Refused("ERR_USER_NOT_FOUND")
        /\ m # NoUser /\ ~Pre[m].verified => Refused("ERR_ACCOUNT_NOT_VERIFIED")
        /\ m # NoUser /\ Pre[m].verified /\ Pre[m].status # 1
              => Refused("ERR_ACCOUNT_DISABLED")
        /\ m # NoUser /\ Pre[m].verified /\ Pre[m].status = 1
              /\ Pre[m].passwordless /\ res.args.password # NoString
              => Refused("ERR_PASSWORDLESS_WITH_PASSWORD")

C18_Witness ==
    /\ res.op = "login"
    /\ PreLoginAccount(res.args.email) # NoUser
    /\ ~Pre[PreLoginAccount(res.args.email)].verified
    /\ Pre[PreLoginAccount(res.args.email)].status # 1
    /\ res.args.token # NoCode
    /\ res.code = "ERR_ACCOUNT_NOT_VERIFIED"

\* C19: disable2Fa fails with TWOFACTOR_NOT_ENABLED when totp.enabled is not
\* true and with TWOFACTOR_INVALID_TOKEN when the code does not verify for
\* the stored secret, and changes nothing in both cases; with a code that
\* verifies it sets totp.enabled to false and totp.secret to null and nothing
\* else, and a login for the account is then never asked for a code.
C19_Disable2Fa ==
    res.op = "disable2Fa" =>
        LET id == res.args.caller
            t == res.args.token
            old == Pre[id].totp
        IN
        IF ~TotpOn(Pre[id]) THEN Refused("TWOFACTOR_NOT_ENABLED")
        ELSE IF ~verify2FA(old.secret, t) THEN Refused("TWOFACTOR_INVALID_TOKEN")
        ELSE /\ res.code = "OK"
             /\ accounts[id].totp.enabled = FALSE
             /\ accounts[id].totp.secret = NoSecret
             /\ accounts = [Pre EXCEPT ![id].totp = accounts[id].totp]
             /\ \A e \in Emails \cup Usernames, p \in Passwords \cup {NoString} :
                   loginQuery(e) = id =>
                       /\ LoginCheck(e, p, NoCode) \notin
                             {"ERR_MISSING_2FA_CODE", "TWOFACTOR_INVALID_TOKEN"}
                       /\ LoginCheck(e, p, BadCode) = LoginCheck(e, p, NoCode)

C19_Witness ==
    /\ res.op = "disable2Fa"
    /\ TotpOn(Pre[res.args.caller])
    /\ res.code = "OK"
    /\ \E e \in Emails, p \in Passwords :
          loginQuery(e) = res.args.caller /\ LoginCheck(e, p, NoCode) = "OK"

\* C20: a login without a password for a verified, Enabled account, with the
\* passwordless feature and the mail on, stores a fresh passwordlessToken
\* with the expiry now + PasswordlessTokenExpires and ends well with the
\* pending answer and no session token, whether the magic-link mail was sent
\* or its sending failed.
C20_MagicLinkLogin ==
    res.op = "login" =>
        LET m == PreLoginAccount(res.args.email) IN
        /\ m # NoUser
        /\ Pre[m].verified
        /\ Pre[m].status = 1
        /\ res.args.password = NoString
        /\ config.passwordless
        /\ config.mail
        => /\ res.code = "OK"
           /\ res.session = NoUser
           /\ accounts[m].passwordlessToken # NoToken
           /\ \A i \in PreIds :
                 accounts[m].passwordlessToken # Pre[i].passwordlessToken
           /\ accounts[m].passwordlessTokenExpires = now + PasswordlessTokenExpires

\* the account with this email in the store as the last call found it
PreEmailAccount(email) ==
    LET S == {i \in PreIds : Pre[i].email = email}
    IN IF S = {} THEN NoUser ELSE CHOOSE i \in S : \A j \in S : i <= j

\* C21: forgotpassword fails for an unknown email, an unverified account and
\* a disabled account, and then changes no account; otherwise it stores on
\* that account alone a fresh resetToken with the expiry
\* now + ResetTokenExpires, after which the lookup of resetpassword finds the
\* account by the new token and finds no account by the token it replaced.
C21_Forgotpassword ==
    res.op = "forgotpassword" =>
        LET m == PreEmailAccount(res.args.email) IN
        IF m = NoUser THEN Refused("ERR_EMAIL_NOT_FOUND")
        ELSE IF ~Pre[m].verified THEN Refused("ERR_ACCOUNT_NOT_VERIFIED")
        ELSE IF Pre[m].status # 1 THEN Refused("ERR_ACCOUNT_DISABLED")
        ELSE /\ res.code = "OK"
             /\ accounts[m].resetToken # NoToken
             /\ accounts[m].resetToken \notin used
             /\ \A i \in PreIds : accounts[m].resetToken # Pre[i].resetToken
             /\ accounts[m].resetTokenExpires = now + ResetTokenExpires
             /\ accounts = [Pre EXCEPT
                               ![m].resetToken = accounts[m].resetToken,
                               ![m].resetTokenExpires = accounts[m].resetTokenExpires]
             /\ findByResetToken(accounts[m].resetToken) = m
             /\ Pre[m].resetToken # NoToken =>
                   findByResetToken(Pre[m].resetToken) = NoUser

C21_Witness ==
    /\ res.op = "forgotpassword"
    /\ res.code = "OK"
    /\ PreEmailAccount(res.args.email) # NoUser
    /\ Pre[PreEmailAccount(res.args.email)].resetToken # NoToken
    /\ Pre[PreEmailAccount(res.args.email)].resetTokenExpires >= now

\* C22: a call that returns a session token for an account found that
\* account with status 1 (enabled) in the store.
C22_NoSessionForDisabled ==
    res.session # NoUser /\ res.session \in PreIds =>
        Pre[res.session].status = 1

\* C23: in every state, whatever the interleaving of the enable2Fa and
\* disable2Fa calls of an account, an account with totp.enabled has a secret
\* that is not null, and an account left enabled by an enable2Fa that
\* verified its code has the secret that code verifies for.
C23_EnabledHasVerifiedSecret ==
    /\ \A i \in Ids : TotpOn(accounts[i]) => accounts[i].totp.secret # NoSecret
    /\ res.op = "enable2Fa" /\ res.code = "OK" /\ res.args.token # NoCode
          /\ TotpOn(accounts[res.args.caller])
          => verify2FA(accounts[res.args.caller].totp.secret, res.args.token)

\* C24: once totp.enabled is true for an account, its totp.enabled and
\* totp.secret change only by a disable2Fa of that account with a code that
\* verifies for the stored secret; no enable2Fa call, alone or interleaved
\* with another, turns totp.enabled off or replaces the secret.
C24_EnabledChangesByDisableOnly ==
    \A i \in PreIds :
        TotpOn(Pre[i]) /\ accounts[i].totp # Pre[i].totp =>
            /\ res.op = "disable2Fa"
            /\ res.args.caller = i
            /\ verify2FA(Pre[i].totp.secret, res.args.token)

\* C25: a call that returns a session token for an account it found with
\* totp.enabled is a call that came with a code that verifies for the
\* stored secret; so for login, and so for passwordless, resetpassword and
\* the socialLogin of an anonymous caller.
C25_SessionNeedsCode ==
    res.session # NoUser /\ res.session \in PreIds /\ TotpOn(Pre[res.session]) =>
        /\ res.op = "login"
        /\ verify2FA(Pre[res.session].totp.secret, res.args.token)

====
